---- MODULE Spec2Model ----
(***************************************************************************)
(* Model of go-bbs-api: a bulletin-board REST service.                     *)
(*                                                                         *)
(* Spec     the layered program: main -> RateLimiterMiddleware ->          *)
(*          PostHandler -> PostService -> PostRepository (SQLite table).   *)
(* SpecMem  the in-memory program: handlePosts over the package-level      *)
(*          slice `posts` guarded by the sync.RWMutex `mu`.                *)
(*                                                                         *)
(* Strings are sequences of one-character strings; ids are sequences of    *)
(* numbers, so that the empty string and the empty id are both <<>>.       *)
(***************************************************************************)
EXTENDS Integers, Sequences, FiniteSets, TLC

\* ---------------------------------------------------------------- bounds
\* number of identifiers the generator can hand out (caps the creates)
MaxIds == 2
\* number of requests that can be in flight at the same time
NumWorkers == 2

\* longest title or content drawn when the sanitizer is exercised (SpecSan)
MaxLen == 2

\* ------------------------------------------------------- program constants
\* capacity := int64(2)
capacity == 2

StatusOK == 200
StatusCreated == 201
StatusBadRequest == 400
StatusMethodNotAllowed == 405
StatusTooManyRequests == 429
StatusInternalServerError == 500

Workers == 1..NumWorkers
UUIDs == {<<i>> : i \in 1..MaxIds}
NoId == <<>>
NoStr == <<>>

\* ------------------------------------------------------------------ inputs
NoBody == [json |-> FALSE, id |-> NoId, title |-> NoStr, content |-> NoStr]

\* request bodies: one that does not decode, and JSON objects (a missing
\* field decodes to the empty string; the last one also carries an "id")
Bodies ==
    { NoBody,
      [json |-> TRUE, id |-> NoId, title |-> <<"a">>, content |-> <<"b">>],
      [json |-> TRUE, id |-> NoId, title |-> <<"a">>, content |-> <<"<">>],
      [json |-> TRUE, id |-> NoId, title |-> <<>>,    content |-> <<"a">>],
      [json |-> TRUE, id |-> NoId, title |-> <<"a">>, content |-> <<>>],
      [json |-> TRUE, id |-> <<1>>, title |-> <<"<">>, content |-> <<"a">>] }

Methods == {"GET", "POST", "OPTIONS", "DELETE"}

Requests ==
    { [method |-> m, body |-> NoBody] : m \in Methods \ {"POST"} }
      \cup { [method |-> "POST", body |-> b] : b \in Bodies }

\* a post that an earlier run of the program left in the database file
SeedPost == [id |-> <<0>>, title |-> <<"s">>, content |-> <<"s">>]

\* ------------------------------------------------------------- sanitizer
\* mutant: a hand-written escaper that forgets the two quotes
EscapeCharNoQuotes(c) ==
    CASE c = "&"  -> <<"&", "a", "m", "p", ";">>
      [] c = "<"  -> <<"&", "l", "t", ";">>
      [] c = ">"  -> <<"&", "g", "t", ";">>
      [] OTHER    -> <<c>>

\* html.EscapeString replaces exactly these five characters
EscapeChar(c) ==
    CASE c = "&"  -> <<"&", "a", "m", "p", ";">>
      [] c = "'"  -> <<"&", "#", "3", "9", ";">>
      [] c = "<"  -> <<"&", "l", "t", ";">>
      [] c = ">"  -> <<"&", "g", "t", ";">>
      [] c = "\"" -> <<"&", "#", "3", "4", ";">>
      [] OTHER    -> <<c>>

RECURSIVE Sanitize(_)
Sanitize(s) ==
    IF s = <<>> THEN <<>> ELSE EscapeChar(Head(s)) \o Sanitize(Tail(s))

\* ------------------------------------------------------------ repository
Reverse(s) == [i \in 1..Len(s) |-> s[Len(s) + 1 - i]]

Ids(r) == {r[i].id : i \in 1..Len(r)}

\* mutant: the ORDER BY clause lost its DESC
GetAllAscending(r, ioOk) ==
    IF ioOk THEN [err |-> "nil", posts |-> r]
            ELSE [err |-> "db",  posts |-> <<>>]

\* SELECT id, title, content FROM posts ORDER BY rowid DESC.
\* The table is kept in rowid order, a new row getting the largest rowid.
GetAll(r, ioOk) ==
    IF ioOk THEN [err |-> "nil", posts |-> Reverse(r)]
            ELSE [err |-> "db",  posts |-> <<>>]

\* mutant: the statement is prepared but never executed
CreateNoInsert(r, post, ioOk) ==
    IF ioOk /\ post.id \notin Ids(r)
    THEN [err |-> "nil", rows |-> r]
    ELSE [err |-> "db",  rows |-> r]

\* mutant: the insert replaces the content of the table
CreateReplacesTable(r, post, ioOk) ==
    IF ioOk /\ post.id \notin Ids(r)
    THEN [err |-> "nil", rows |-> <<post>>]
    ELSE [err |-> "db",  rows |-> r]

\* mutant: the INSERT is issued twice
CreateTwice(r, post, ioOk) ==
    IF ioOk /\ post.id \notin Ids(r)
    THEN [err |-> "nil", rows |-> Append(Append(r, post), post)]
    ELSE [err |-> "db",  rows |-> r]

\* INSERT INTO posts(id, title, content) VALUES(?, ?, ?); "id" is the
\* PRIMARY KEY of the table, so a second row with the same id is refused.
Create(r, post, ioOk) ==
    IF ioOk /\ post.id \notin Ids(r)
    THEN [err |-> "nil", rows |-> Append(r, post)]
    ELSE [err |-> "db",  rows |-> r]

\* --------------------------------------------------------------- service
\* mutant: the ID field is left at its zero value
NewPostBlankId(id, title, content) ==
    [id |-> NoId, title |-> Sanitize(title), content |-> Sanitize(content)]

NewPost(id, title, content) ==
    [id |-> id, title |-> Sanitize(title), content |-> Sanitize(content)]

NoPost == [id |-> NoId, title |-> NoStr, content |-> NoStr]

\* mutant: only the title is validated
IsInvalidPostTitleOnly(post) == post.title = <<>>

IsInvalidPost(post) == post.title = <<>> \/ post.content = <<>>

GetAllPosts(r, ioOk) == GetAll(r, ioOk)

\* mutant: the error of repo.Create is dropped
CreatePostIgnoresError(r, id, title, content, ioOk) ==
    LET post == NewPost(id, title, content) IN
    IF IsInvalidPost(post)
    THEN [err |-> "ErrInvalidPost", post |-> NoPost, rows |-> r]
    ELSE [err |-> "nil", post |-> post, rows |-> Create(r, post, ioOk).rows]

CreatePost(r, id, title, content, ioOk) ==
    LET post == NewPost(id, title, content) IN
    IF IsInvalidPost(post)
    THEN [err |-> "ErrInvalidPost", post |-> NoPost, rows |-> r]
    ELSE LET c == Create(r, post, ioOk) IN
         IF c.err # "nil"
         THEN [err |-> c.err, post |-> NoPost, rows |-> r]
         ELSE [err |-> "nil", post |-> post, rows |-> c.rows]

\* ------------------------------------------------------------- responses
CorsHeaders == {"Access-Control-Allow-Origin",
                "Access-Control-Allow-Methods",
                "Access-Control-Allow-Headers"}

JsonType == "application/json; charset=utf-8"
PlainType == "text/plain; charset=utf-8"

\* kind: "empty" | "text" | "error" | "post" | "array" | "null"
Response(status, kind, msg, list, cors, ctype) ==
    [status |-> status, kind |-> kind, msg |-> msg, posts |-> list,
     cors |-> cors, ctype |-> ctype]

\* http.Error(w, msg, code): replaces the Content-Type, writes code and msg
HttpError(msg, code, cors) == Response(code, "error", msg, <<>>, cors, PlainType)

\* json.NewEncoder(w).Encode(v) of a []Post: a nil slice encodes as null
NilSlice == [nil |-> TRUE, elems |-> <<>>]
Slice(s) == [nil |-> FALSE, elems |-> s]

EncodePosts(status, v, cors) ==
    IF v.nil THEN Response(status, "null", "", <<>>, cors, JsonType)
             ELSE Response(status, "array", "", v.elems, cors, JsonType)

EncodePost(status, post, cors) ==
    Response(status, "post", "", <<post>>, cors, JsonType)

NoResponse == Response(0, "none", "", <<>>, {}, "")

\* ------------------------------------------------------------ rate limiter
Min(a, b) == IF a < b THEN a ELSE b

\* bucket.TakeAvailable(count): never waits; 0 when no token is available
TakeAvailable(avail, count) == IF avail <= 0 THEN 0 ELSE Min(count, avail)

\* --------------------------------------------------------------- handlers
\* PostHandler.HandleGetPosts
HandleGetPosts(r, ioOk) ==
    LET g == GetAllPosts(r, ioOk) IN
    IF g.err # "nil"
    THEN [resp |-> HttpError("Internal server error",
                             StatusInternalServerError, CorsHeaders),
          rows |-> r, called |-> {"GetAllPosts"}]
    ELSE [resp |-> EncodePosts(StatusOK, Slice(g.posts), CorsHeaders),
          rows |-> r, called |-> {"GetAllPosts"}]

\* mutant: the decode error is ignored and the zero-valued input is used
HandleCreatePostNoDecodeCheck(r, body, id, ioOk) ==
    LET c == CreatePost(r, id, body.title, body.content, ioOk) IN
    IF c.err # "nil"
    THEN [resp |-> HttpError("Internal server error",
                             StatusInternalServerError, CorsHeaders),
          rows |-> r, called |-> {"CreatePost"}]
    ELSE [resp |-> EncodePost(StatusCreated, c.post, CorsHeaders),
          rows |-> c.rows, called |-> {"CreatePost"}]

\* mutant: the input struct has an "id" field that is used when it is set
HandleCreatePostClientId(r, body, id, ioOk) ==
    IF ~body.json
    THEN [resp |-> HttpError("Invalid request body", StatusBadRequest,
                             CorsHeaders),
          rows |-> r, called |-> {}]
    ELSE LET c == CreatePost(r, IF body.id # NoId THEN body.id ELSE id,
                             body.title, body.content, ioOk) IN
         IF c.err # "nil"
         THEN [resp |-> HttpError("Internal server error",
                                  StatusInternalServerError, CorsHeaders),
               rows |-> r, called |-> {"CreatePost"}]
         ELSE [resp |-> EncodePost(StatusCreated, c.post, CorsHeaders),
               rows |-> c.rows, called |-> {"CreatePost"}]

\* PostHandler.HandleCreatePost
HandleCreatePost(r, body, id, ioOk) ==
    IF ~body.json
    THEN [resp |-> HttpError("Invalid request body", StatusBadRequest,
                             CorsHeaders),
          rows |-> r, called |-> {}]
    ELSE LET c == CreatePost(r, id, body.title, body.content, ioOk) IN
         IF c.err # "nil"
         THEN [resp |-> HttpError("Internal server error",
                                  StatusInternalServerError, CorsHeaders),
               rows |-> r, called |-> {"CreatePost"}]
         ELSE [resp |-> EncodePost(StatusCreated, c.post, CorsHeaders),
               rows |-> c.rows, called |-> {"CreatePost"}]

\* mutant: the default branch falls through to the listing
HandlePostsDefaultLists(r, rq, id, ioOk) ==
    IF rq.method = "OPTIONS"
    THEN [resp |-> Response(StatusOK, "empty", "", <<>>, CorsHeaders, ""),
          rows |-> r, called |-> {}]
    ELSE CASE rq.method = "POST" -> HandleCreatePost(r, rq.body, id, ioOk)
           [] OTHER -> HandleGetPosts(r, ioOk)

\* PostHandler.HandlePosts
HandlePosts(r, rq, id, ioOk) ==
    IF rq.method = "OPTIONS"
    THEN [resp |-> Response(StatusOK, "empty", "", <<>>, CorsHeaders, ""),
          rows |-> r, called |-> {}]
    ELSE CASE rq.method = "GET"  -> HandleGetPosts(r, ioOk)
           [] rq.method = "POST" -> HandleCreatePost(r, rq.body, id, ioOk)
           [] OTHER -> [resp |-> HttpError("Method not allowed",
                                           StatusMethodNotAllowed, CorsHeaders),
                        rows |-> r, called |-> {}]

WelcomeText == "Welcome to the Bulletin Board API! Please use the /posts endpoint."

\* mutant: the root handler answers like an unknown route
HandleRootNotFound ==
    Response(404, "text", "404 page not found", <<>>, {}, PlainType)

\* PostHandler.HandleRoot
HandleRoot ==
    Response(StatusOK, "text", WelcomeText, <<>>,
             {"Access-Control-Allow-Origin"}, PlainType)

\* ------------------------------------------------------------------ state
VARIABLES
    phase,          \* "boot" | "serving" | "fatal"
    tableExists,    \* the posts table exists in the database file
    rows,           \* the rows of the posts table, in rowid order
    issued,         \* identifiers uuid.New() has returned so far
    tokens,         \* tokens available in limiterBucket
    pc,             \* per worker: "idle" | "admitted" (past the middleware)
    last,           \* the request answered last and its response
    rows0,          \* history: the rows found at start-up
    createdLog,     \* history: the posts answered 201, in answer order
    burstAdmitted,  \* history: requests admitted since the last refill
    posts,          \* in-memory program: the slice `posts`
    readers,        \* in-memory program: workers holding mu.RLock
    writer,         \* in-memory program: workers holding mu.Lock
    mpc,            \* in-memory program: per worker position
    newPost,        \* in-memory program: per worker local `newPost`
    mreq            \* in-memory program: per worker request body

dbVars == <<phase, tableExists, rows, tokens, pc, rows0, createdLog,
            burstAdmitted>>
memVars == <<posts, readers, writer, mpc, newPost, mreq>>
vars == <<phase, tableExists, rows, issued, tokens, pc, last, rows0,
          createdLog, burstAdmitted, posts, readers, writer, mpc, newPost,
          mreq>>

\* what `last` records about an answered request
Answer(path, rq, tookToken, id, ioOk, h) ==
    [path |-> path, method |-> rq.method, body |-> rq.body,
     tookToken |-> tookToken, id |-> id, ioOk |-> ioOk,
     resp |-> h.resp, called |-> h.called, added |-> h.added]

NoAnswer ==
    [path |-> "", method |-> "", body |-> NoBody, tookToken |-> FALSE,
     id |-> NoId, ioOk |-> TRUE, resp |-> NoResponse,
     called |-> {}, added |-> 0]

MemIdle ==
    /\ posts = NilSlice
    /\ readers = {}
    /\ writer = {}
    /\ mpc = [w \in Workers |-> "idle"]
    /\ newPost = [w \in Workers |-> NoPost]
    /\ mreq = [w \in Workers |-> NoBody]

Init ==
    /\ phase = "boot"
    /\ tableExists \in BOOLEAN
    /\ rows \in (IF tableExists THEN {<<>>, <<SeedPost>>} ELSE {<<>>})
    /\ rows0 = rows
    /\ issued = {}
    /\ tokens = 0
    /\ pc = [w \in Workers |-> "idle"]
    /\ last = NoAnswer
    /\ createdLog = <<>>
    /\ burstAdmitted = 0
    /\ MemIdle

\* ---------------------------------------------------------------- start-up
\* mutant: a failed db.Exec is logged without ending the process
CreateTableNotFatal(exists, r, execOk) ==
    [fatal |-> FALSE, exists |-> exists \/ execOk, rows |-> r]

\* CREATE TABLE IF NOT EXISTS posts: an existing table keeps its rows
CreateTable(exists, r, execOk) ==
    IF execOk THEN [fatal |-> FALSE, exists |-> TRUE, rows |-> r]
              ELSE [fatal |-> TRUE, exists |-> exists, rows |-> r]

\* InitDB: sql.Open, then CreateTable; log.Fatalf ends the process
InitDB(exists, r, openOk, execOk) ==
    IF ~openOk THEN [fatal |-> TRUE, exists |-> exists, rows |-> r]
               ELSE CreateTable(exists, r, execOk)

\* main: InitDB, the bucket (created full), the routes, ListenAndServe
Main ==
    /\ phase = "boot"
    /\ \E openOk \in BOOLEAN, execOk \in BOOLEAN :
          LET d == InitDB(tableExists, rows, openOk, execOk) IN
          /\ tableExists' = d.exists
          /\ rows' = d.rows
          /\ phase' = IF d.fatal THEN "fatal" ELSE "serving"
          /\ tokens' = IF d.fatal THEN tokens ELSE capacity
    /\ UNCHANGED <<issued, pc, last, rows0, createdLog, burstAdmitted>>
    /\ UNCHANGED memVars

\* time passes: one fill interval adds a token, up to the capacity
Refill ==
    /\ phase = "serving"
    /\ tokens < capacity
    /\ tokens' = tokens + 1
    /\ burstAdmitted' = 0
    /\ UNCHANGED <<phase, tableExists, rows, issued, pc, last, rows0,
                   createdLog>>
    /\ UNCHANGED memVars

\* mutant: the comparison with 0 is written "< 0"
RateLimitExceededNever(taken) == taken < 0

\* if bucket.TakeAvailable(1) == 0
RateLimitExceeded(taken) == taken = 0

\* A request to /posts enters the middleware on worker w.  The middleware
\* does not read the request, so what an admitted request asks for is drawn
\* when HandlePosts reads it (Serve); rq is recorded here only when refused.
RateLimiterMiddleware(w, rq) ==
    /\ phase = "serving"
    /\ pc[w] = "idle"
    /\ LET taken == TakeAvailable(tokens, 1) IN
       IF RateLimitExceeded(taken)
       THEN /\ last' = Answer("/posts", rq, FALSE, NoId, TRUE,
                           [resp |-> HttpError(
                                       "Too many requests. Please try again later.",
                                       StatusTooManyRequests, {}),
                            called |-> {}, added |-> 0])
            /\ UNCHANGED <<tokens, pc, burstAdmitted>>
       ELSE /\ tokens' = tokens - taken
            /\ pc' = [pc EXCEPT ![w] = "admitted"]
            /\ burstAdmitted' = burstAdmitted + 1
            /\ UNCHANGED last
    /\ UNCHANGED <<phase, tableExists, rows, issued, rows0, createdLog>>
    /\ UNCHANGED memVars

\* uuid.New(): an identifier no earlier call has returned
NewIds == UUIDs \ issued

\* CreatePost calls uuid.New() once; no other request draws an identifier
IdDraws(rq) == IF rq.method = "POST" /\ rq.body.json THEN NewIds ELSE {NoId}

\* next(w, r): the admitted request runs HandlePosts to its response
Serve(w, rq) ==
    /\ phase = "serving"
    /\ pc[w] = "admitted"
    /\ \E ioOk \in BOOLEAN, id \in IdDraws(rq) :
          LET h == HandlePosts(rows, rq, id, ioOk)
              log == IF h.resp.status = StatusCreated
                     THEN createdLog \o h.resp.posts ELSE createdLog
          IN
          /\ rows' = h.rows
          /\ issued' = issued \cup ({id} \ {NoId})
          /\ createdLog' = log
          /\ last' = Answer("/posts", rq, TRUE, id, ioOk,
                            [resp |-> h.resp, called |-> h.called,
                             added |-> Len(h.rows) - Len(rows)])
    /\ pc' = [pc EXCEPT ![w] = "idle"]
    /\ UNCHANGED <<phase, tableExists, tokens, rows0, burstAdmitted>>
    /\ UNCHANGED memVars

\* a request to "/" (any method): HandleRoot, outside the middleware
Root(m) ==
    /\ phase = "serving"
    /\ last' = Answer("/", [method |-> m, body |-> NoBody], FALSE,
                      NoId, TRUE,
                      [resp |-> HandleRoot, called |-> {}, added |-> 0])
    /\ UNCHANGED <<phase, tableExists, rows, issued, tokens, pc, rows0,
                   createdLog, burstAdmitted>>
    /\ UNCHANGED memVars

\* ------------------------------------------ one create, with any short text
\* characters a client may send: a letter and the five html.EscapeString
\* replaces
SanAlphabet == {"a", "<", ">", "&", "'", "\""}

RECURSIVE TextsUpTo(_)
TextsUpTo(n) ==
    IF n = 0 THEN {<<>>}
    ELSE LET shorter == TextsUpTo(n - 1) IN
         shorter \cup {Append(t, c) : t \in shorter, c \in SanAlphabet}

SanTexts == TextsUpTo(MaxLen)

\* the program is serving on an empty table and has answered nothing yet
InitSan ==
    /\ phase = "serving"
    /\ tableExists = TRUE
    /\ rows = <<>>
    /\ rows0 = <<>>
    /\ issued = {}
    /\ tokens = capacity - 1
    /\ pc = [w \in Workers |-> IF w = 1 THEN "admitted" ELSE "idle"]
    /\ last = NoAnswer
    /\ createdLog = <<>>
    /\ burstAdmitted = 1
    /\ MemIdle

\* the admitted request is a POST /posts with a JSON body of any two texts
ServeText(title, content) ==
    Serve(1, [method |-> "POST",
              body |-> [json |-> TRUE, id |-> NoId, title |-> title,
                        content |-> content]])

NextSan == \E title \in SanTexts, content \in SanTexts : ServeText(title, content)

SpecSan == InitSan /\ [][NextSan]_vars

\* ------------------------------------------------- the in-memory program
\* {"00000000-0000-0000-0000-000000000001", "Test Post 1", ...}
SamplePost == [id |-> <<0>>, title |-> <<"t">>, content |-> <<"f">>]

\* append(posts, newPost); appending to a nil slice gives a one-element slice
AppendPost(v, post) == Slice(v.elems \o <<post>>)

\* handleCreatePost: the body is decoded into a Post (its "id" included),
\* then the id is replaced and both texts are sanitized
BuildNewPost(body, id) ==
    LET decoded == [id |-> body.id, title |-> body.title,
                    content |-> body.content]
    IN [decoded EXCEPT !.id = id,
                       !.title = Sanitize(decoded.title),
                       !.content = Sanitize(decoded.content)]

\* mutant: the listing does not take the read lock
CanRLockAlways(wr) == TRUE

\* mu.RLock() returns when no writer holds the mutex
CanRLock(wr) == wr = {}

\* mu.Lock() returns when nobody holds the mutex
CanLock(rd, wr) == rd = {} /\ wr = {}

MemServing == phase \in {"serving", "test"}

InitMem ==
    /\ phase \in {"boot", "test"}
    /\ tableExists = FALSE
    /\ rows = <<>>
    /\ rows0 = <<>>
    /\ issued = {}
    /\ tokens = 0
    /\ pc = [w \in Workers |-> "idle"]
    /\ last = NoAnswer
    /\ createdLog = <<>>
    /\ burstAdmitted = 0
    /\ MemIdle

\* main of the in-memory program: one sample post, then the routes
MemMain ==
    /\ phase = "boot"
    /\ posts' = Slice(<<SamplePost>>)
    /\ phase' = "serving"
    /\ UNCHANGED <<readers, writer, mpc, newPost, mreq, issued, last>>
    /\ UNCHANGED <<tableExists, rows, tokens, pc, rows0, createdLog,
                   burstAdmitted>>

\* setupTestEnvironment: mu.Lock(); posts = []Post{...}; mu.Unlock()
setupTestEnvironment ==
    /\ phase = "test"
    /\ CanLock(readers, writer)
    /\ posts' = Slice(<<SamplePost>>)
    /\ UNCHANGED <<readers, writer, mpc, newPost, mreq, issued, last>>
    /\ UNCHANGED dbVars

\* tearDownTestEnvironment: mu.Lock(); posts = nil; mu.Unlock()
tearDownTestEnvironment ==
    /\ phase = "test"
    /\ CanLock(readers, writer)
    /\ posts' = NilSlice
    /\ UNCHANGED <<readers, writer, mpc, newPost, mreq, issued, last>>
    /\ UNCHANGED dbVars

\* handlePosts, OPTIONS and the methods that are not allowed
handlePostsOther(m) ==
    /\ MemServing
    /\ m \notin {"GET", "POST"}
    /\ last' = Answer("/posts", [method |-> m, body |-> NoBody], FALSE, NoId,
                      TRUE,
                      [resp |-> IF m = "OPTIONS"
                                THEN Response(StatusOK, "empty", "", <<>>,
                                              CorsHeaders, "")
                                ELSE HttpError("Method not allowed",
                                               StatusMethodNotAllowed,
                                               CorsHeaders),
                       called |-> {}, added |-> 0])
    /\ UNCHANGED <<posts, readers, writer, mpc, newPost, mreq, issued>>
    /\ UNCHANGED dbVars

\* handleGetPosts: mu.RLock()
memRLock(w) ==
    /\ MemServing
    /\ mpc[w] = "idle"
    /\ CanRLock(writer)
    /\ readers' = readers \cup {w}
    /\ mpc' = [mpc EXCEPT ![w] = "reading"]
    /\ UNCHANGED <<posts, writer, newPost, mreq, issued, last>>
    /\ UNCHANGED dbVars

\* handleGetPosts: Encode(posts), then the deferred mu.RUnlock()
handleGetPosts(w) ==
    /\ mpc[w] = "reading"
    /\ last' = Answer("/posts", [method |-> "GET", body |-> NoBody], FALSE,
                      NoId, TRUE,
                      [resp |-> EncodePosts(StatusOK, posts, CorsHeaders),
                       called |-> {}, added |-> 0])
    /\ readers' = readers \ {w}
    /\ mpc' = [mpc EXCEPT ![w] = "idle"]
    /\ UNCHANGED <<posts, writer, newPost, mreq, issued>>
    /\ UNCHANGED dbVars

\* handleCreatePost up to mu.Lock(): decode, new id, sanitize
handleCreatePost(w, body) ==
    /\ MemServing
    /\ mpc[w] = "idle"
    /\ IF ~body.json
       THEN /\ last' = Answer("/posts", [method |-> "POST", body |-> body],
                              FALSE, NoId, TRUE,
                              [resp |-> HttpError("Invalid request body",
                                                  StatusBadRequest,
                                                  CorsHeaders),
                               called |-> {}, added |-> 0])
            /\ UNCHANGED <<mpc, newPost, mreq, issued>>
       ELSE \E id \in NewIds :
              /\ newPost' = [newPost EXCEPT ![w] = BuildNewPost(body, id)]
              /\ mreq' = [mreq EXCEPT ![w] = body]
              /\ issued' = issued \cup {id}
              /\ mpc' = [mpc EXCEPT ![w] = "built"]
              /\ UNCHANGED last
    /\ UNCHANGED <<posts, readers, writer>>
    /\ UNCHANGED dbVars

\* handleCreatePost: mu.Lock()
memLock(w) ==
    /\ mpc[w] = "built"
    /\ CanLock(readers, writer)
    /\ writer' = {w}
    /\ mpc' = [mpc EXCEPT ![w] = "locked"]
    /\ UNCHANGED <<posts, readers, newPost, mreq, issued, last>>
    /\ UNCHANGED dbVars

\* handleCreatePost: posts = append(posts, newPost)
memAppend(w) ==
    /\ mpc[w] = "locked"
    /\ posts' = AppendPost(posts, newPost[w])
    /\ mpc' = [mpc EXCEPT ![w] = "appended"]
    /\ UNCHANGED <<readers, writer, newPost, mreq, issued, last>>
    /\ UNCHANGED dbVars

\* handleCreatePost: mu.Unlock(), then 201 with the new post
memUnlock(w) ==
    /\ mpc[w] = "appended"
    /\ writer' = writer \ {w}
    /\ last' = Answer("/posts",
                      [method |-> "POST", body |-> mreq[w]], FALSE, newPost[w].id, TRUE,
                      [resp |-> EncodePost(StatusCreated, newPost[w],
                                           CorsHeaders),
                       called |-> {}, added |-> 1])
    /\ mpc' = [mpc EXCEPT ![w] = "idle"]
    /\ newPost' = [newPost EXCEPT ![w] = NoPost]
    /\ mreq' = [mreq EXCEPT ![w] = NoBody]
    /\ UNCHANGED <<posts, readers, issued>>
    /\ UNCHANGED dbVars

\* handleRoot of the in-memory program
handleRoot(m) ==
    /\ MemServing
    /\ last' = Answer("/", [method |-> m, body |-> NoBody], FALSE, NoId, TRUE,
                      [resp |-> HandleRoot, called |-> {}, added |-> 0])
    /\ UNCHANGED <<posts, readers, writer, mpc, newPost, mreq, issued>>
    /\ UNCHANGED dbVars

NextMem ==
    \/ MemMain
    \/ setupTestEnvironment
    \/ tearDownTestEnvironment
    \/ \E m \in Methods : handlePostsOther(m)
    \/ \E w \in Workers : memRLock(w)
    \/ \E w \in Workers : handleGetPosts(w)
    \/ \E w \in Workers, b \in Bodies : handleCreatePost(w, b)
    \/ \E w \in Workers : memLock(w)
    \/ \E w \in Workers : memAppend(w)
    \/ \E w \in Workers : memUnlock(w)
    \/ \E m \in Methods : handleRoot(m)

SpecMem == InitMem /\ [][NextMem]_vars

Next ==
    \/ Main
    \/ Refill
    \/ \E w \in Workers, rq \in Requests : RateLimiterMiddleware(w, rq)
    \/ \E w \in Workers, rq \in Requests : Serve(w, rq)
    \/ \E m \in Methods : Root(m)

Spec == Init /\ [][Next]_vars

\* ======================================================================
\* Properties
\* ======================================================================
ValidBody(b) == b.json /\ Sanitize(b.title) # <<>> /\ Sanitize(b.content) # <<>>

\* the request answered last was served by HandlePosts (it passed the gate)
ServedPosts(m) == last.path = "/posts" /\ last.method = m /\ last.tookToken

ListNow == GetAll(rows, TRUE).posts

\* C1: every post in the table and every post answered 201 has a non-empty
\* id, and no two of them share an id.
C1_UniqueIds ==
    /\ \A i \in DOMAIN rows : rows[i].id # NoId
    /\ \A i, j \in DOMAIN rows : i # j => rows[i].id # rows[j].id
    /\ \A i \in DOMAIN createdLog :
          /\ createdLog[i].id # NoId
          /\ createdLog[i].id \notin Ids(rows0)
          /\ \A j \in DOMAIN createdLog : i # j => createdLog[i].id # createdLog[j].id

C1_Witness == Len(createdLog) >= 2 /\ Len(rows) = Len(rows0) + 2 /\ rows0 # <<>>

\* C2: a POST /posts whose body decodes but whose sanitized title or content
\* is empty is answered 400 with a JSON error object.
C2_ValidationIs400 ==
    (ServedPosts("POST") /\ last.body.json /\ ~ValidBody(last.body))
        => (last.resp.status = StatusBadRequest /\ last.resp.kind = "error")

C4_RoundTripRaw ==
    (ServedPosts("POST") /\ last.resp.status = StatusCreated)
        => /\ last.resp.posts[1].title = last.body.title
           /\ last.resp.posts[1].content = last.body.content

\* C4 (amended): a served POST /posts with a valid body whose insert succeeds
\* is answered 201 with a post carrying a non-empty id and the SANITIZED
\* title and content; every post answered 201 occurs exactly once in any
\* later listing, with that id, title and content.
C4_RoundTrip ==
    /\ (ServedPosts("POST") /\ ValidBody(last.body) /\ last.ioOk)
          => /\ last.resp.status = StatusCreated
             /\ last.resp.kind = "post"
             /\ last.resp.posts[1].id # NoId
             /\ last.resp.posts[1].title = Sanitize(last.body.title)
             /\ last.resp.posts[1].content = Sanitize(last.body.content)
    /\ \A k \in DOMAIN createdLog :
          /\ Cardinality({i \in DOMAIN ListNow : ListNow[i].id = createdLog[k].id}) = 1
          /\ \E i \in DOMAIN ListNow : ListNow[i] = createdLog[k]

C4_Witness ==
    /\ ServedPosts("POST") /\ last.resp.status = StatusCreated
    /\ last.body.title = <<"<">>
    /\ Len(createdLog) = 2

\* C5 as stated: every POST /posts whose body does not decode is answered 400
\* with {"error": "Invalid request body"}; CreatePost is not called and no
\* row is added.
C5_DecodeFailureAlways400 ==
    (last.path = "/posts" /\ last.method = "POST" /\ ~last.body.json)
        => /\ last.resp.status = StatusBadRequest
           /\ last.resp.kind = "error"
           /\ last.resp.msg = "Invalid request body"
           /\ last.called = {}
           /\ last.added = 0

\* C5 (amended): a POST /posts that passed the rate limiter and whose body
\* does not decode is answered 400 with {"error": "Invalid request body"};
\* one refused by the rate limiter is answered 429; in both cases CreatePost
\* is not called and no row is added.
C5_DecodeFailure ==
    (last.path = "/posts" /\ last.method = "POST" /\ ~last.body.json)
        => /\ last.called = {}
           /\ last.added = 0
           /\ last.resp.kind = "error"
           /\ IF last.tookToken
              THEN /\ last.resp.status = StatusBadRequest
                   /\ last.resp.msg = "Invalid request body"
              ELSE last.resp.status = StatusTooManyRequests

C5_Witness ==
    /\ ServedPosts("POST") /\ ~last.body.json
    /\ last.resp.status = StatusBadRequest
    /\ Len(createdLog) >= 1

\* C6: a listing of the durable store is the rows found at start-up followed
\* by the posts answered 201 in answer order, each once, newest first.
C6_NewestFirst ==
    /\ ListNow = Reverse(rows0 \o createdLog)
    /\ (ServedPosts("GET") /\ last.resp.status = StatusOK)
          => (last.resp.kind = "array" /\ last.resp.posts = Reverse(rows0 \o createdLog))

C6_Witness ==
    /\ ServedPosts("GET") /\ last.resp.status = StatusOK
    /\ Len(createdLog) = 2
    /\ Len(last.resp.posts) = 3

\* C7: a GET /posts answered 200 on a store without posts carries the empty
\* JSON array, never null.
C7_EmptyListIsArray ==
    (last.path = "/posts" /\ last.method = "GET"
       /\ last.resp.status = StatusOK /\ last.resp.posts = <<>>)
        => last.resp.kind = "array"

\* C8: an OPTIONS request to /posts is always answered 200 with an empty
\* body and changes no row, whatever the table and the bucket hold.
C8_OptionsAlways200 ==
    (last.path = "/posts" /\ last.method = "OPTIONS")
        => /\ last.resp.status = StatusOK
           /\ last.resp.kind = "empty"
           /\ last.added = 0

\* C9: between two refills at most `capacity` requests pass the middleware;
\* with no token left a request is not admitted but answered 429 in the same
\* step, without reaching HandlePosts and without changing the table.
C9_BurstLimited ==
    /\ [](burstAdmitted <= capacity)
    /\ [](last.resp.status = StatusTooManyRequests
            => (~last.tookToken /\ last.called = {} /\ last.added = 0))
    /\ [][ /\ tokens = 0 => \A w \in Workers : pc'[w] = "admitted" => pc[w] = "admitted"
           /\ (last' # last /\ last'.resp.status = StatusTooManyRequests)
                => (tokens = 0 /\ rows' = rows /\ pc' = pc /\ tokens' = tokens)
           /\ (tokens = 0 /\ last' # last /\ last'.path = "/posts" /\ pc' = pc)
                => last'.resp.status = StatusTooManyRequests ]_vars

C9_Witness ==
    /\ burstAdmitted = capacity
    /\ tokens = 0
    /\ last.resp.status = StatusTooManyRequests
    /\ last.method = "POST"

\* C10: a GET /posts never takes a token and is never answered 429: it is
\* answered 200 or 500.
C10_GetNotLimited ==
    (last.path = "/posts" /\ last.method = "GET")
        => /\ ~last.tookToken
           /\ last.resp.status \in {StatusOK, StatusInternalServerError}

\* C11: every response to a request for /posts carries the three CORS
\* headers, whatever the method and the status.
C11_CorsOnEveryResponse ==
    last.path = "/posts" => last.resp.cors = CorsHeaders

\* C12: a request to /posts that reaches HandlePosts with a method other than
\* OPTIONS, GET or POST is answered 405 with {"error": "Method not allowed"};
\* neither GetAllPosts nor CreatePost is called and no row changes.
C12_MethodNotAllowed ==
    /\ [](\A m \in Methods \ {"OPTIONS", "GET", "POST"} :
             ServedPosts(m)
               => /\ last.resp.status = StatusMethodNotAllowed
                  /\ last.resp.kind = "error"
                  /\ last.resp.msg = "Method not allowed"
                  /\ last.called = {}
                  /\ last.added = 0)
    /\ [][(last' # last /\ last'.path = "/posts"
             /\ last'.method \notin {"OPTIONS", "GET", "POST"})
            => (rows' = rows /\ issued' = issued)]_vars

C12_Witness ==
    /\ ServedPosts("DELETE")
    /\ last.resp.status = StatusMethodNotAllowed
    /\ Len(createdLog) >= 1

C14_PostsImmutable ==
    [][/\ Len(rows') >= Len(rows)
       /\ \A i \in DOMAIN rows : rows'[i] = rows[i]]_vars

C14_Witness ==
    /\ rows0 # <<>>
    /\ Len(rows) = Len(rows0) + 2
    /\ last.method = "DELETE"

\* C15: the id of a created post is the identifier the server generated:
\* the answer to a POST /posts is the same whatever "id" the body carries,
\* and the post answered 201 has the generated id.
C15_ServerChoosesId ==
    /\ (ServedPosts("POST") /\ last.resp.status = StatusCreated)
          => /\ last.id \in UUIDs
             /\ last.resp.posts[1].id = last.id
             /\ \E i \in DOMAIN rows : rows[i] = last.resp.posts[1]
    /\ \A b \in Bodies, x \in UUIDs \cup {NoId}, id \in UUIDs, ioOk \in BOOLEAN :
          HandleCreatePost(rows, [b EXCEPT !.id = x], id, ioOk)
            = HandleCreatePost(rows, b, id, ioOk)

C15_Witness ==
    /\ ServedPosts("POST") /\ last.resp.status = StatusCreated
    /\ last.body.id = <<1>>
    /\ last.resp.posts[1].id = <<2>>

\* the five entities html.EscapeString writes, with the character each stands for
Entities ==
    { [char |-> "&",  text |-> <<"&", "a", "m", "p", ";">>],
      [char |-> "'",  text |-> <<"&", "#", "3", "9", ";">>],
      [char |-> "<",  text |-> <<"&", "l", "t", ";">>],
      [char |-> ">",  text |-> <<"&", "g", "t", ";">>],
      [char |-> "\"", text |-> <<"&", "#", "3", "4", ";">>] }

EntityAt(s, k, e) ==
    /\ k + Len(e.text) - 1 <= Len(s)
    /\ SubSeq(s, k, k + Len(e.text) - 1) = e.text

\* no raw markup character or quote, and every & starts an entity
Escaped(s) ==
    /\ \A k \in DOMAIN s : s[k] \notin {"<", ">", "'", "\""}
    /\ \A k \in DOMAIN s : s[k] = "&" => \E e \in Entities : EntityAt(s, k, e)

\* reading the text back: every entity gives its character again
RECURSIVE Unescape(_)
Unescape(s) ==
    IF s = <<>> THEN <<>>
    ELSE IF \E e \in Entities : EntityAt(s, 1, e)
         THEN LET e == CHOOSE e \in Entities : EntityAt(s, 1, e) IN
              <<e.char>> \o Unescape(SubSeq(s, Len(e.text) + 1, Len(s)))
         ELSE <<Head(s)>> \o Unescape(Tail(s))

\* C16: every title and content in the table is escaped: it holds no raw
\* < > ' " and no & outside an entity; the post stored for a request is the
\* request's text with each special character replaced by its entity and
\* nothing else changed.
C16_StoredSanitized ==
    /\ \A i \in DOMAIN rows : Escaped(rows[i].title) /\ Escaped(rows[i].content)
    /\ (ServedPosts("POST") /\ last.resp.status = StatusCreated)
          => LET post == last.resp.posts[1] IN
             /\ \E i \in DOMAIN rows : rows[i] = post
             /\ Unescape(post.title) = last.body.title
             /\ Unescape(post.content) = last.body.content
             /\ Len(post.title) >= Len(last.body.title)
             /\ \A c \in {"<", ">", "'", "\"", "&"} :
                  (\E k \in DOMAIN last.body.title : last.body.title[k] = c)
                    => \E k \in DOMAIN post.title, e \in Entities :
                          e.char = c /\ EntityAt(post.title, k, e)

C16_Witness ==
    /\ ServedPosts("POST") /\ last.resp.status = StatusCreated
    /\ last.body.title = <<"'", "&">>
    /\ last.body.content = <<"\"", ">">>
    /\ Len(rows) = 1

\* C17: a failing query or insert is answered 500 with a JSON error object
\* and adds no row (never 201); the process keeps serving, and an admitted
\* request can always be served afterwards.
C17_StorageFailure ==
    /\ []((ServedPosts("GET") /\ ~last.ioOk)
            => /\ last.resp.status = StatusInternalServerError
               /\ last.resp.kind = "error"
               /\ last.added = 0)
    /\ []((ServedPosts("POST") /\ ValidBody(last.body) /\ ~last.ioOk)
            => /\ last.resp.status = StatusInternalServerError
               /\ last.resp.kind = "error"
               /\ last.added = 0
               /\ last.id \notin Ids(rows))
    /\ [](phase = "serving"
            => \A w \in Workers :
                 pc[w] = "admitted"
                   => ENABLED Serve(w, [method |-> "GET", body |-> NoBody]))
    /\ [][(phase = "serving" => phase' = "serving")
           /\ (last'.resp.status = StatusInternalServerError => rows' = rows)]_vars

C17_Witness ==
    /\ ServedPosts("POST") /\ ValidBody(last.body) /\ ~last.ioOk
    /\ last.resp.status = StatusInternalServerError
    /\ Len(createdLog) >= 1
    /\ phase = "serving"

\* workers between mu.Lock() and mu.Unlock(), and between mu.RLock() and
\* mu.RUnlock()
Appending == {w \in Workers : mpc[w] \in {"locked", "appended"}}
Listing == {w \in Workers : mpc[w] = "reading"}

\* C18: in the in-memory program at most one create is inside the critical
\* section and then no listing is; listings may be inside together; the
\* slice changes only in the step of the worker holding the write lock, so a
\* listing is encoded from a slice no create is in the middle of changing.
C18_ReaderWriterExclusion ==
    /\ [](/\ Cardinality(Appending) <= 1
          /\ Appending # {} => Listing = {}
          /\ writer = Appending
          /\ readers = Listing)
    /\ [][/\ (posts' # posts /\ phase' = phase /\ phase = "serving")
              => (Listing = {} /\ Cardinality(Appending) = 1)
          /\ \A w \in Workers :
               (mpc[w] = "reading" /\ mpc'[w] = "idle")
                 => /\ Appending = {}
                    /\ last'.resp.posts = posts.elems]_vars

C18_Witness ==
    /\ Cardinality(Listing) = 2
    /\ \A w \in Workers : mpc[w] = "reading"
    /\ Len(posts.elems) >= 2

\* C19: the table is created with create-if-not-exists before anything is
\* served: while serving the table exists, start-up keeps the rows a store
\* already has, and a run whose start-up failed stays terminated with no
\* request admitted, answered or stored.
C19_SchemaBeforeService ==
    /\ [](/\ phase = "serving" => tableExists
          /\ phase \in {"boot", "fatal"}
               => /\ last = NoAnswer
                  /\ \A w \in Workers : pc[w] = "idle"
                  /\ createdLog = <<>>
                  /\ rows = rows0)
    /\ [][/\ phase = "boot" => /\ rows' = rows
                               /\ tableExists => tableExists'
                               /\ phase' = "serving" => tableExists'
          /\ phase = "fatal" => phase' = "fatal"]_vars

C19_Witness ==
    /\ phase = "fatal"
    /\ ~tableExists
    /\ last = NoAnswer

\* C20: the store holds the initial posts plus one per request answered
\* 201: an answer 201 added exactly one post, every other answer added
\* none, and the rows change only by the one post a 201 returns.
C20_NoLostOrPhantomCreates ==
    /\ [](/\ Len(rows) = Len(rows0) + Len(createdLog)
          /\ last.resp.status = StatusCreated <=> last.added = 1
          /\ last.resp.status # StatusCreated => last.added = 0
          /\ last.method \in {"GET", "OPTIONS"} => last.added = 0)
    /\ [][rows' # rows
            => /\ last'.resp.status = StatusCreated
               /\ rows' = rows \o last'.resp.posts
               /\ Len(last'.resp.posts) = 1
               /\ createdLog' = createdLog \o last'.resp.posts]_vars

C20_Witness ==
    /\ Len(createdLog) = 2
    /\ Len(rows) = Len(rows0) + 2
    /\ last.resp.status = StatusCreated
    /\ \E w \in Workers : pc[w] = "admitted"

====
